---------------------------- MODULE Spec2Model ----------------------------
(***************************************************************************)
(* A model of app/main.py: the REPL of main(), the builtins, the history   *)
(* commands, the pipelines of run_pipeline() and the TAB completer         *)
(* complete_command().                                                     *)
(*                                                                         *)
(* Text is modelled as sequences of one-character strings, so that         *)
(* shlex.split, the redirection regex, str.startswith, sorted() and the    *)
(* line-oriented file format are computed on characters as the code does.  *)
(***************************************************************************)
EXTENDS Integers, Sequences, FiniteSets, TLC

(***************************************************************************)
(* Bounds of the model.                                                    *)
(***************************************************************************)
\* largest readline history the model lets the shell build
MaxHist == 4
\* the same in the runs that write the history and read it back
MaxRound == 6
\* the same in the runs that enter pipelines
MaxPipe == 3
\* the same in the runs that follow a pipeline process by process
MaxRuns == 2
\* the capacity of a pipe, in characters
PipeCap == 2
\* the most processes one pipeline of these runs launches
MaxStages == 3

(***************************************************************************)
(* Characters and strings.                                                 *)
(***************************************************************************)
\* the characters of the model, in code-point order (as Python compares str);
\* BEL stands for the one character 0x07, the terminal bell
Chars == << "BEL", "\n", " ", "!", "\"", "#", "$", "%", "&", "'", "(", ")",
            "*", "+", ",", "-", ".", "/", "0", "1", "2", "3", "4", "5",
            "6", "7", "8", "9", ":", ";", "<", "=", ">", "?", "@", "A",
            "B", "C", "D", "E", "F", "G", "H", "I", "J", "K", "L", "M",
            "N", "O", "P", "Q", "R", "S", "T", "U", "V", "W", "X", "Y",
            "Z", "[", "\\", "]", "^", "_", "a", "b", "c", "d", "e",
            "f", "g", "h", "i", "j", "k", "l", "m", "n", "o", "p", "q",
            "r", "s", "t", "u", "v", "w", "x", "y", "z", "{", "|", "}",
            "~" >>

Ord(c) == CHOOSE i \in 1..Len(Chars) : Chars[i] = c

NL == "\n"

None == [some |-> FALSE, val |-> <<>>]
Some(v) == [some |-> TRUE, val |-> v]

Max(a, b) == IF a >= b THEN a ELSE b

\* str.startswith
StartsWith(s, p) == Len(p) <= Len(s) /\ SubSeq(s, 1, Len(p)) = p

\* s < t for Python strings
RECURSIVE StrLess(_, _)
StrLess(s, t) ==
    IF t = <<>> THEN FALSE
    ELSE IF s = <<>> THEN TRUE
    ELSE IF Head(s) # Head(t) THEN Ord(Head(s)) < Ord(Head(t))
    ELSE StrLess(Tail(s), Tail(t))

IsSpace(c) == c \in {" ", "\n"}
Digits == <<"0", "1", "2", "3", "4", "5", "6", "7", "8", "9">>
IsDigit(c) == \E i \in 1..10 : Digits[i] = c

\* str.strip() (whitespace at both ends)
RECURSIVE LStrip(_)
LStrip(s) == IF s # <<>> /\ IsSpace(Head(s)) THEN LStrip(Tail(s)) ELSE s

RECURSIVE RStrip(_)
RStrip(s) ==
    IF s # <<>> /\ IsSpace(s[Len(s)]) THEN RStrip(SubSeq(s, 1, Len(s) - 1)) ELSE s

Strip(s) == RStrip(LStrip(s))

\* " ".join(words) and "  ".join(words)
RECURSIVE Join(_, _)
Join(sep, ws) ==
    IF ws = <<>> THEN <<>>
    ELSE IF Len(ws) = 1 THEN ws[1]
    ELSE ws[1] \o sep \o Join(sep, Tail(ws))

(***************************************************************************)
(* shlex.split(s): posix mode, whitespace_split, no comments.              *)
(* st is the lexer state: "ws" before a token, "a" inside a word, "sq" and *)
(* "dq" inside quotes, "esc" after a backslash (es is shlex's escapedstate,*)
(* the state to return to).  A result is [ok |-> TRUE, words |-> ...] or,  *)
(* for the ValueError shlex raises on an unterminated quotation or escape, *)
(* [ok |-> FALSE, words |-> <<>>].                                         *)
(***************************************************************************)
RECURSIVE ShlexRun(_, _, _, _, _, _)
ShlexRun(s, st, es, tok, quoted, acc) ==
    IF s = <<>> THEN
        IF st \in {"sq", "dq", "esc"} THEN [ok |-> FALSE, words |-> <<>>]
        ELSE IF st = "a" /\ (tok # <<>> \/ quoted)
             THEN [ok |-> TRUE, words |-> Append(acc, tok)]
             ELSE [ok |-> TRUE, words |-> acc]
    ELSE LET c == Head(s)  r == Tail(s) IN
        CASE st = "ws" ->
                IF IsSpace(c) THEN ShlexRun(r, "ws", es, <<>>, FALSE, acc)
                ELSE IF c = "\\" THEN ShlexRun(r, "esc", "a", <<>>, FALSE, acc)
                ELSE IF c = "'" THEN ShlexRun(r, "sq", es, <<>>, FALSE, acc)
                ELSE IF c = "\"" THEN ShlexRun(r, "dq", es, <<>>, FALSE, acc)
                ELSE ShlexRun(r, "a", es, <<c>>, FALSE, acc)
          [] st = "sq" ->
                IF c = "'" THEN ShlexRun(r, "a", es, tok, TRUE, acc)
                ELSE ShlexRun(r, "sq", es, tok \o <<c>>, TRUE, acc)
          [] st = "dq" ->
                IF c = "\"" THEN ShlexRun(r, "a", es, tok, TRUE, acc)
                ELSE IF c = "\\" THEN ShlexRun(r, "esc", "dq", tok, TRUE, acc)
                ELSE ShlexRun(r, "dq", es, tok \o <<c>>, TRUE, acc)
          [] st = "esc" ->
                IF es = "dq" /\ c # "\\" /\ c # "\""
                THEN ShlexRun(r, es, es, tok \o <<"\\", c>>, quoted, acc)
                ELSE ShlexRun(r, es, es, tok \o <<c>>, quoted, acc)
          [] OTHER ->
                IF IsSpace(c) THEN
                    IF tok # <<>> \/ quoted
                    THEN ShlexRun(r, "ws", es, <<>>, FALSE, Append(acc, tok))
                    ELSE ShlexRun(r, "ws", es, <<>>, FALSE, acc)
                ELSE IF c = "\\" THEN ShlexRun(r, "esc", "a", tok, quoted, acc)
                ELSE IF c = "'" THEN ShlexRun(r, "sq", es, tok, quoted, acc)
                ELSE IF c = "\"" THEN ShlexRun(r, "dq", es, tok, quoted, acc)
                ELSE ShlexRun(r, "a", es, tok \o <<c>>, quoted, acc)

ShlexSplit(s) == ShlexRun(s, "ws", "a", <<>>, FALSE, <<>>)

(***************************************************************************)
(* The redirection regex of main(): optional whitespace, an optional run   *)
(* of digits (group 1), the operator (group 2), optional whitespace, the   *)
(* rest of the line (group 3).  re.search returns the leftmost match, which*)
(* starts at the longest run of whitespace followed by digits that ends    *)
(* right before the first redirection character of the line.               *)
(***************************************************************************)
\* 1-based position of the first redirection character of s, 0 when none
FirstGt(s) ==
    IF \E i \in 1..Len(s) : s[i] = ">"
    THEN CHOOSE i \in 1..Len(s) : s[i] = ">" /\ \A j \in 1..(i - 1) : s[j] # ">"
    ELSE 0

\* length of the run of digits that ends at position n of s
RECURSIVE DigitRun(_, _)
DigitRun(s, n) == IF n >= 1 /\ IsDigit(s[n]) THEN 1 + DigitRun(s, n - 1) ELSE 0

\* length of the run of whitespace that ends at position n of s
RECURSIVE SpaceRun(_, _)
SpaceRun(s, n) == IF n >= 1 /\ IsSpace(s[n]) THEN 1 + SpaceRun(s, n - 1) ELSE 0

\* the match object: start is redirect_match.start(), fd / op / target are
\* group(1), group(2), group(3)
RedirectSearch(line) ==
    LET g == FirstGt(line) IN
    IF g = 0 THEN [found |-> FALSE, start |-> 0, fd |-> <<>>, op |-> <<>>, target |-> <<>>]
    ELSE LET d    == DigitRun(line, g - 1)
             w    == SpaceRun(line, g - 1 - d)
             dbl  == g < Len(line) /\ line[g + 1] = ">"
             rest == SubSeq(line, IF dbl THEN g + 2 ELSE g + 1, Len(line))
         IN [found  |-> TRUE,
             start  |-> g - 1 - d - w,
             fd     |-> SubSeq(line, g - d, g - 1),
             op     |-> IF dbl THEN <<">", ">">> ELSE <<">">>,
             target |-> LStrip(rest)]

(***************************************************************************)
(* sorted(set(options)) and os.path.commonprefix.                          *)
(***************************************************************************)
StrMin(S) == CHOOSE m \in S : \A x \in S : x = m \/ StrLess(m, x)
StrMax(S) == CHOOSE m \in S : \A x \in S : x = m \/ StrLess(x, m)

RECURSIVE Sorted(_)
Sorted(S) == IF S = {} THEN <<>> ELSE <<StrMin(S)>> \o Sorted(S \ {StrMin(S)})

\* length of the longest common prefix of s1 and s2
RECURSIVE CommonLen(_, _)
CommonLen(s1, s2) ==
    IF s1 # <<>> /\ s2 # <<>> /\ Head(s1) = Head(s2)
    THEN 1 + CommonLen(Tail(s1), Tail(s2)) ELSE 0

\* variant: the largest name is taken for the common prefix
LargestName(S) == IF S = {} THEN <<>> ELSE StrMax(S)

\* os.path.commonprefix(m): the common prefix of min(m) and max(m)
CommonPrefix(S) ==
    IF S = {} THEN <<>>
    ELSE SubSeq(StrMin(S), 1, CommonLen(StrMin(S), StrMax(S)))

(***************************************************************************)
(* Literal texts of the program.                                           *)
(***************************************************************************)
W_exit    == <<"e", "x", "i", "t">>
W_echo    == <<"e", "c", "h", "o">>
W_type    == <<"t", "y", "p", "e">>
W_pwd     == <<"p", "w", "d">>
W_cd      == <<"c", "d">>
W_history == <<"h", "i", "s", "t", "o", "r", "y">>

\* the keys of the commands dictionary
commands == {W_exit, W_echo, W_type, W_pwd, W_cd, W_history}

T_not_found == <<":", " ", "c", "o", "m", "m", "a", "n", "d", " ", "n", "o",
                 "t", " ", "f", "o", "u", "n", "d", "\n">>
T_is_builtin == <<" ", "i", "s", " ", "a", " ", "s", "h", "e", "l", "l", " ",
                  "b", "u", "i", "l", "t", "i", "n", "\n">>
T_is == <<" ", "i", "s", " ">>
T_type_not_found == <<":", " ", "n", "o", "t", " ", "f", "o", "u", "n", "d", "\n">>
T_cd == <<"c", "d", ":", " ">>
T_no_such == <<":", " ", "N", "o", " ", "s", "u", "c", "h", " ", "f", "i", "l",
               "e", " ", "o", "r", " ", "d", "i", "r", "e", "c", "t", "o", "r",
               "y", "\n">>
T_history == <<"h", "i", "s", "t", "o", "r", "y", ":", " ">>
T_colon == <<":", " ">>
\* the text of an OSError (str(e)); what it says is the operating system's
T_oserror == <<"[", "E", "r", "r", "n", "o", "]", " ", "O", "S", "E", "r", "r",
               "o", "r">>
T_indent == <<" ", " ", " ", " ">>
T_prompt == <<"$", " ">>
T_bell == <<"BEL">>
Opt_r == <<"-", "r">>
Opt_a == <<"-", "a">>
Opt_w == <<"-", "w">>
Tilde == <<"~">>
Slash == <<"/">>
SP == <<" ">>

(***************************************************************************)
(* int(s) and str(i) for the decimal numbers the program parses and prints.*)
(***************************************************************************)
DigitVal(c) == (CHOOSE i \in 1..10 : Digits[i] = c) - 1

RECURSIVE DecVal(_)
DecVal(s) == IF s = <<>> THEN 0 ELSE 10 * DecVal(SubSeq(s, 1, Len(s) - 1)) + DigitVal(s[Len(s)])

AllDigits(s) == s # <<>> /\ \A i \in 1..Len(s) : IsDigit(s[i])

\* int(s): [ok |-> FALSE] stands for ValueError
ParseInt(s) ==
    LET t == Strip(s) IN
    IF AllDigits(t) THEN [ok |-> TRUE, val |-> DecVal(t)]
    ELSE IF t # <<>> /\ Head(t) = "-" /\ AllDigits(Tail(t))
         THEN [ok |-> TRUE, val |-> 0 - DecVal(Tail(t))]
    ELSE IF t # <<>> /\ Head(t) = "+" /\ AllDigits(Tail(t))
         THEN [ok |-> TRUE, val |-> DecVal(Tail(t))]
    ELSE [ok |-> FALSE, val |-> 0]

RECURSIVE Dec(_)
Dec(n) == IF n < 10 THEN <<Digits[n + 1]>> ELSE Dec(n \div 10) \o <<Digits[(n % 10) + 1]>>

(***************************************************************************)
(* The state of the shell process and of its environment.                  *)
(***************************************************************************)
VARIABLES
    pc,                     \* "start" before main() has loaded the history,
                            \* "prompt" at input("$ "), "exited" after
                            \* os._exit, "crashed" after an uncaught exception
    exit_code,              \* the exit status of the process once it has ended
    exc,                    \* the uncaught exception that ended the process
    history,                \* the readline history (1-indexed entries)
    history_append_index,   \* _history_append_index
    history_path,           \* _history_path
    cwd,                    \* os.getcwd()
    sys_stdout,             \* what sys.stdout is bound to: None is the stream
    sys_stderr,             \* of the process, Some(f) the file opened on f
    last_tab_text,          \* complete_command._last_tab_text
    last_tab_bell,          \* complete_command._last_tab_bell
    tab_out,                \* what the last TAB wrote and returned, the
                            \* options it found and whether readline rang
                            \* the bell; flip alternates, so that every TAB
                            \* is a step
    out,                    \* what the last entered line wrote to the terminal
    ran,                    \* what the last entered line executed
    files,                  \* the file system: path -> content
    loaded,                 \* the length of the history when main() enters
                            \* its loop (the entries it loaded from HISTFILE)
    HISTFILE,               \* os.environ.get("HISTFILE")
    PATH,                   \* os.environ["PATH"]: the directories in order,
                            \* each with the executables it holds
    pl                      \* the call of run_pipeline that is followed
                            \* process by process: where the shell is in it,
                            \* the processes it launched and their pipes

vars == << pc, exit_code, exc, history, history_append_index, history_path,
           cwd, sys_stdout, sys_stderr, last_tab_text, last_tab_bell, tab_out,
           out, ran, files, loaded, HISTFILE, PATH, pl >>

(***************************************************************************)
(* Files.  A history file holds one entry per line.                        *)
(***************************************************************************)
\* item + "\n" for the entries from..to of h
RECURSIVE EntryLines(_, _, _)
EntryLines(h, from, to) ==
    IF from > to THEN <<>> ELSE h[from] \o <<NL>> \o EntryLines(h, from + 1, to)

\* the loop of history -r and of main(): for raw_line in history_file, strip
\* the newline, skip the line when it is empty, else add_history(line)
RECURSIVE FileEntriesRun(_, _, _)
FileEntriesRun(content, cur, acc) ==
    IF content = <<>> THEN (IF cur = <<>> THEN acc ELSE Append(acc, cur))
    ELSE IF Head(content) = NL
         THEN FileEntriesRun(Tail(content), <<>>, IF cur = <<>> THEN acc ELSE Append(acc, cur))
         ELSE FileEntriesRun(Tail(content), Append(cur, Head(content)), acc)

\* variant: the loader strips every line and so drops whitespace-only ones
FileEntriesStripped(content) ==
    SelectSeq(FileEntriesRun(content, <<>>, <<>>), LAMBDA e : Strip(e) # <<>>)

FileEntries(content) == FileEntriesRun(content, <<>>, <<>>)

\* open(path, "r") succeeds: the file exists and the system lets it be opened
CanRead(fs, bad, path) == path \in DOMAIN fs /\ path \notin bad

\* open(path, "w") / open(path, "a") succeeds
CanWrite(bad, path) == path # <<>> /\ path \notin bad

\* the file system after open(path, "w"), write(text), close
WriteFile(fs, path, text) == (path :> text) @@ fs

\* the file system after open(path, "a"), write(text), close
AppendFile(fs, path, text) ==
    (path :> ((IF path \in DOMAIN fs THEN fs[path] ELSE <<>>) \o text)) @@ fs

\* print(f"history: {history_path}: {e}")
HistoryError(path) == T_history \o path \o T_colon \o T_oserror \o <<NL>>

(***************************************************************************)
(* The builtins.  m is the state a builtin runs in:                        *)
(*   [hist, idx, files, cwd, bad], bad being the paths the system refuses  *)
(* to open during this command.  The result is m with                      *)
(*   outcome: "return", "raise" (an exception leaves the builtin) or       *)
(*            "exit" (os._exit ended the process), code: the exit status,  *)
(*   text: what the builtin printed on sys.stdout.                         *)
(***************************************************************************)
Returned(m, text) ==
    [outcome |-> "return", code |-> 0, error |-> "", text |-> text,
     hist |-> m.hist, idx |-> m.idx, files |-> m.files, cwd |-> m.cwd]

Raised(m, error, text) == [Returned(m, text) EXCEPT !.outcome = "raise", !.error = error]

\* write_history_file(history_path): the file system and the text printed
write_history_file(m, path) ==
    IF CanWrite(m.bad, path)
    THEN [files |-> WriteFile(m.files, path, EntryLines(m.hist, 1, Len(m.hist))),
          text |-> <<>>]
    ELSE [files |-> m.files, text |-> HistoryError(path)]

\* os._exit(code) of exit_command: code is the default 0 or the str argument
OsExit(m, args, w) ==
    IF args = <<>>
    THEN [Returned(m, w.text) EXCEPT !.outcome = "exit", !.code = 0, !.files = w.files]
    ELSE [Raised(m, "TypeError", w.text) EXCEPT !.files = w.files]

exit_command(m, args) ==
    IF Len(args) > 1 THEN Raised(m, "TypeError", <<>>)
    ELSE LET path == IF history_path.some THEN history_path ELSE HISTFILE
             w == IF path.some /\ path.val # <<>>
                  THEN write_history_file(m, path.val)
                  ELSE [files |-> m.files, text |-> <<>>]
         IN OsExit(m, args, w)

echo_command(m, args) == Returned(m, Join(SP, args) \o <<NL>>)

\* shutil.which(command): the path in the first PATH directory that holds it
Which(command) ==
    IF \E i \in 1..Len(PATH) : command \in PATH[i].exes
    THEN LET i == CHOOSE k \in 1..Len(PATH) :
                     /\ command \in PATH[k].exes
                     /\ \A j \in 1..(k - 1) : command \notin PATH[j].exes
         IN Some(PATH[i].dir \o Slash \o command)
    ELSE None

type_command(m, args) ==
    IF Len(args) # 1 THEN Raised(m, "TypeError", <<>>)
    ELSE LET command == args[1] IN
         IF command \in commands THEN Returned(m, command \o T_is_builtin)
         ELSE IF Which(command).some
              THEN Returned(m, command \o T_is \o Which(command).val \o <<NL>>)
         ELSE Returned(m, command \o T_type_not_found)

pwd_command(m, args) ==
    IF Len(args) # 0 THEN Raised(m, "TypeError", <<>>)
    ELSE Returned(m, m.cwd \o <<NL>>)

\* the directories of the file system and the home of the user
Dirs == { <<"/">>, <<"/", "t">>, <<"/", "h">> }
Home == <<"/", "h">>

cd_command(m, args) ==
    IF Len(args) # 1 THEN Raised(m, "TypeError", <<>>)
    ELSE LET path == args[1] IN
         IF path \in Dirs THEN [Returned(m, <<>>) EXCEPT !.cwd = path]
         ELSE IF path = Tilde THEN [Returned(m, <<>>) EXCEPT !.cwd = Home]
         ELSE Returned(m, T_cd \o path \o T_no_such)

\* variant: history -r replaces the history by the entries of the file
HistoryReadReplacing(m, path) ==
    IF CanRead(m.files, m.bad, path)
    THEN [Returned(m, <<>>) EXCEPT !.hist = FileEntries(m.files[path])]
    ELSE Returned(m, HistoryError(path))

\* history -r <path>
HistoryRead(m, path) ==
    IF CanRead(m.files, m.bad, path)
    THEN [Returned(m, <<>>) EXCEPT !.hist = m.hist \o FileEntries(m.files[path])]
    ELSE Returned(m, HistoryError(path))

\* variant: history -a starts at the marker itself
AppendStartAtMarker(idx) == Max(1, idx)

\* start = max(1, _history_append_index + 1) of history -a
AppendStart(idx) == Max(1, idx + 1)

\* variant: history -a appends and leaves the marker where it was
HistoryAppendKeepingMarker(m, path) ==
    LET total == Len(m.hist)
        start == AppendStart(m.idx)
    IN IF start <= total /\ CanWrite(m.bad, path)
       THEN [Returned(m, <<>>) EXCEPT
                !.files = AppendFile(m.files, path, EntryLines(m.hist, start, total))]
       ELSE IF start <= total THEN Returned(m, HistoryError(path))
       ELSE Returned(m, <<>>)

\* history -a <path>: the marker moves only when no OSError was raised
HistoryAppend(m, path) ==
    LET total == Len(m.hist)
        start == AppendStart(m.idx)
    IN IF start <= total
       THEN IF CanWrite(m.bad, path)
            THEN [Returned(m, <<>>) EXCEPT
                     !.files = AppendFile(m.files, path, EntryLines(m.hist, start, total)),
                     !.idx = total]
            ELSE Returned(m, HistoryError(path))
       ELSE [Returned(m, <<>>) EXCEPT !.idx = total]

\* history -w <path>
HistoryWrite(m, path) ==
    IF CanWrite(m.bad, path)
    THEN [Returned(m, <<>>) EXCEPT
             !.files = WriteFile(m.files, path, EntryLines(m.hist, 1, Len(m.hist)))]
    ELSE Returned(m, HistoryError(path))

\* print(f"    {i}  {readline.get_history_item(i)}") for i in start..total
RECURSIVE HistoryListing(_, _, _)
HistoryListing(h, from, to) ==
    IF from > to THEN <<>>
    ELSE T_indent \o Dec(from) \o SP \o SP \o h[from] \o <<NL>>
         \o HistoryListing(h, from + 1, to)

\* history [n]
HistoryShow(m, args) ==
    LET total == Len(m.hist)
        limit == IF Len(args) >= 1 THEN ParseInt(args[1]) ELSE [ok |-> FALSE, val |-> 0]
        start == IF ~limit.ok \/ limit.val < 0 THEN 1
                 ELSE Max(1, total - limit.val + 1)
    IN Returned(m, HistoryListing(m.hist, start, total))

history_command(m, args) ==
    IF Len(args) >= 2 /\ args[1] = Opt_r THEN HistoryRead(m, args[2])
    ELSE IF Len(args) >= 2 /\ args[1] = Opt_a THEN HistoryAppend(m, args[2])
    ELSE IF Len(args) >= 2 /\ args[1] = Opt_w THEN HistoryWrite(m, args[2])
    ELSE HistoryShow(m, args)

\* commands[command](*args)
CallBuiltin(m, command, args) ==
    CASE command = W_exit -> exit_command(m, args)
      [] command = W_echo -> echo_command(m, args)
      [] command = W_type -> type_command(m, args)
      [] command = W_pwd -> pwd_command(m, args)
      [] command = W_cd -> cd_command(m, args)
      [] command = W_history -> history_command(m, args)

(***************************************************************************)
(* execute_builtin and run_executable.  The result adds to the builtin's   *)
(* result what reached the terminal (term), what sys.stdout and sys.stderr *)
(* are bound to when control leaves the function, and whether the builtin  *)
(* was called.                                                             *)
(***************************************************************************)
FdOut == <<"1">>
FdErr == <<"2">>

\* the file system after open(output_file, "a" if append else "w")
OpenedFile(fs, output_file, append) ==
    IF append THEN AppendFile(fs, output_file, <<>>) ELSE WriteFile(fs, output_file, <<>>)

\* the streams after the call of the builtin inside the with block: the two
\* assignments that restore them run only when the builtin returned
StreamsAfter(outcome, fd, output_file) ==
    IF outcome = "return" THEN [stdout |-> None, stderr |-> None]
    ELSE [stdout |-> IF fd = FdOut THEN Some(output_file) ELSE None,
          stderr |-> IF fd = FdErr THEN Some(output_file) ELSE None]

execute_builtin(m, command, args, output_file, fd, append) ==
    IF output_file # <<>> THEN
        IF ~CanWrite(m.bad, output_file)
        THEN Raised(m, "OSError", <<>>)
             @@ [term |-> <<>>, stdout |-> None, stderr |-> None, called |-> FALSE]
        ELSE LET m1 == [m EXCEPT !.files = OpenedFile(m.files, output_file, append)]
                 r  == CallBuiltin(m1, command, args)
                 st == StreamsAfter(r.outcome, fd, output_file)
             IN IF fd = FdOut
                THEN \* the text is in the buffer of f, which the with block
                     \* flushes when it closes f; os._exit closes nothing
                     [r EXCEPT !.files = IF r.outcome = "exit" THEN r.files
                                         ELSE AppendFile(r.files, output_file, r.text)]
                     @@ [term |-> <<>>, stdout |-> st.stdout, stderr |-> st.stderr,
                         called |-> TRUE]
                ELSE r @@ [term |-> r.text, stdout |-> st.stdout, stderr |-> st.stderr,
                           called |-> TRUE]
    ELSE LET r == CallBuiltin(m, command, args)
         IN r @@ [term |-> r.text, stdout |-> None, stderr |-> None, called |-> TRUE]

\* print(f"{command}: {e}") of run_executable
RunError(command) == command \o T_colon \o T_oserror \o <<NL>>

\* run_executable: executed tells whether subprocess.run was called, ext is
\* what the program then writes on its standard output
run_executable(m, command, args, output_file, fd, append, ext) ==
    IF output_file # <<>> THEN
        IF ~CanWrite(m.bad, output_file)
        THEN Returned(m, <<>>) @@ [term |-> RunError(command), executed |-> FALSE]
        ELSE LET fs == OpenedFile(m.files, output_file, append) IN
             IF fd = FdOut
             THEN [Returned(m, <<>>) EXCEPT !.files = AppendFile(fs, output_file, ext)]
                  @@ [term |-> <<>>, executed |-> TRUE]
             ELSE IF fd = FdErr
             THEN [Returned(m, <<>>) EXCEPT !.files = fs]
                  @@ [term |-> ext, executed |-> TRUE]
             ELSE [Returned(m, <<>>) EXCEPT !.files = fs]
                  @@ [term |-> <<>>, executed |-> FALSE]
    ELSE Returned(m, <<>>) @@ [term |-> ext, executed |-> TRUE]

(***************************************************************************)
(* One iteration of the loop of main() on an entered line.                 *)
(* bad: the paths the system refuses to open during this iteration,        *)
(* ext: what an external program writes on its standard output.            *)
(***************************************************************************)
\* what a line executed: how is "builtin", "external", "none", "pipeline"
\* (run_pipeline launched the stages itself) or "shell" (run_pipeline handed
\* the line to the system shell); stages are the processes run_pipeline
\* launched, in order, and waited tells how many of them it waited for
NoRan == [line |-> <<>>, how |-> "none", command |-> <<>>, args |-> <<>>,
          output_file |-> <<>>, fd |-> <<>>, append |-> FALSE,
          stages |-> <<>>, waited |-> 0]

HasPipe(line) == \E i \in 1..Len(line) : line[i] = "|"

\* the state in which the line leaves the process
Outcome(state, code, error, h, idx, fs, cw, so, se, term, r) ==
    [pc |-> state, exit_code |-> code, exc |-> error, hist |-> h, idx |-> idx,
     files |-> fs, cwd |-> cw, stdout |-> so, stderr |-> se, out |-> term, ran |-> r]

\* continue: back to input("$ ")
Continue(h, term) ==
    Outcome("prompt", -1, "", h, history_append_index, files, cwd, None, None, term, NoRan)

\* an exception no handler of main() catches: the interpreter prints the
\* traceback on sys.stderr and the process ends with status 1
Uncaught(error, h) ==
    Outcome("crashed", 1, error, h, history_append_index, files, cwd, None, None, <<>>, NoRan)

\* where a call of execute_builtin leaves the process
AfterBuiltin(r, rn) ==
    CASE r.outcome = "return" ->
            Outcome("prompt", -1, "", r.hist, r.idx, r.files, r.cwd, r.stdout, r.stderr, r.term, rn)
      [] r.outcome = "exit" ->
            Outcome("exited", r.code, "", r.hist, r.idx, r.files, r.cwd, r.stdout, r.stderr, r.term, rn)
      [] r.outcome = "raise" ->
            Outcome("crashed", 1, r.error, r.hist, r.idx, r.files, r.cwd, r.stdout, r.stderr, r.term, rn)

(***************************************************************************)
(* run_pipeline(line).  The stages of a pipeline are processes; a builtin  *)
(* stage runs in a child made by os.fork, which starts as a copy of the    *)
(* shell and shares only the file system with it.                          *)
(***************************************************************************)
\* line.split("|"): cur is the part being read, acc the parts before it
RECURSIVE SplitRun(_, _, _)
SplitRun(s, cur, acc) ==
    IF s = <<>> THEN Append(acc, cur)
    ELSE IF Head(s) = "|" THEN SplitRun(Tail(s), <<>>, Append(acc, cur))
    ELSE SplitRun(Tail(s), Append(cur, Head(s)), acc)

SplitPipe(line) == SplitRun(line, <<>>, <<>>)

\* the first loop of run_pipeline over the parts from i on: "yes" when a
\* part starts with a builtin, "no" when none does, "ValueError" when
\* shlex.split raises on a part met before
RECURSIVE HasBuiltin(_, _)
HasBuiltin(pipeline_parts, i) ==
    IF i > Len(pipeline_parts) THEN "no"
    ELSE LET cmd_args == ShlexSplit(Strip(pipeline_parts[i])) IN
         IF ~cmd_args.ok THEN "ValueError"
         ELSE IF cmd_args.words # <<>> /\ cmd_args.words[1] \in commands THEN "yes"
         ELSE HasBuiltin(pipeline_parts, i + 1)

\* variant: the builtin of a pipeline stage runs in the shell itself
InShell(m, r) == [m EXCEPT !.hist = r.hist, !.idx = r.idx, !.cwd = r.cwd, !.files = r.files]

\* what the shell keeps of a builtin that ran in a forked child and ended
\* with os._exit or an exception: what it did to the file system
AfterFork(m, r) == [m EXCEPT !.files = r.files]

\* the exit status of the child that ran a builtin
ChildStatus(r) == IF r.outcome = "raise" THEN 1 ELSE r.code

\* a launched stage: seg is the index i of its part
Stage(i, kind, cmd_args, status) ==
    [seg |-> i, kind |-> kind, command |-> cmd_args[1], args |-> Tail(cmd_args),
     status |-> status]

\* where the loop over the parts leaves run_pipeline: error is the uncaught
\* exception or "", term is what reached the terminal
Launched(error, m, processes, term) ==
    [error |-> error, m |-> m, processes |-> processes, term |-> term]

\* the second loop of run_pipeline from part i on (i counts from 1, the i of
\* the code from 0).  The stages are taken to affect the file system in the
\* order of the line.
RECURSIVE LaunchStages(_, _, _, _, _, _)
LaunchStages(pipeline_parts, i, m, processes, term, ext) ==
    IF i > Len(pipeline_parts) THEN Launched("", m, processes, term)
    ELSE
    LET cmd_args == ShlexSplit(Strip(pipeline_parts[i]))
        last == (i = Len(pipeline_parts))
    IN
    IF ~cmd_args.ok THEN Launched("ValueError", m, processes, term)
    ELSE IF cmd_args.words = <<>>
         THEN LaunchStages(pipeline_parts, i + 1, m, processes, term, ext)
    ELSE IF i > 1 /\ processes = <<>>
         THEN \* processes[-1] of an empty list
              Launched("IndexError", m, processes, term)
    ELSE
    LET cmd_name == cmd_args.words[1] IN
    IF cmd_name \in commands THEN
        LET r == CallBuiltin(m, cmd_name, Tail(cmd_args.words))
        IN LaunchStages(pipeline_parts, i + 1, AfterFork(m, r),
                        Append(processes, Stage(i, "builtin", cmd_args.words, ChildStatus(r))),
                        IF last THEN r.text ELSE term, ext)
    ELSE IF Which(cmd_name).some THEN
        LaunchStages(pipeline_parts, i + 1, m,
                     Append(processes, Stage(i, "external", cmd_args.words, 0)),
                     IF last THEN ext ELSE term, ext)
    ELSE \* subprocess.Popen raises in the shell
        Launched("FileNotFoundError", m, processes, term)

\* run_pipeline: the result adds to the state m the uncaught exception, what
\* reached the terminal and what was launched and waited for
run_pipeline(line, m, ext) ==
    LET pipeline_parts == SplitPipe(line)
        has_builtin == HasBuiltin(pipeline_parts, 1)
    IN IF has_builtin = "ValueError"
       THEN [error |-> "ValueError", m |-> m, term |-> <<>>, how |-> "none",
             stages |-> <<>>, waited |-> 0]
       ELSE IF has_builtin = "no"
       THEN \* subprocess.run(line, shell=True): the system shell runs the line
            [error |-> "", m |-> m, term |-> ext, how |-> "shell",
             stages |-> <<>>, waited |-> 0]
       ELSE LET l == LaunchStages(pipeline_parts, 1, m, <<>>, <<>>, ext)
            IN [error |-> l.error, m |-> l.m, term |-> l.term, how |-> "pipeline",
                stages |-> l.processes,
                waited |-> IF l.error = "" THEN Len(l.processes) ELSE 0]

\* where a call of run_pipeline leaves the process
AfterPipeline(p, line) ==
    LET rn == [NoRan EXCEPT !.line = line, !.how = p.how, !.stages = p.stages,
                            !.waited = p.waited]
    IN IF p.error = ""
       THEN Outcome("prompt", -1, "", p.m.hist, p.m.idx, p.m.files, p.m.cwd,
                    None, None, p.term, rn)
       ELSE Outcome("crashed", 1, p.error, p.m.hist, p.m.idx, p.m.files, p.m.cwd,
                    None, None, p.term, rn)

\* variant: a line of whitespace is skipped like an empty one
SkippedBlank(line) == Strip(line) = <<>>

\* if not line: continue
Skipped(line) == line = <<>>

MainLine(line, bad, ext) ==
    IF Skipped(line) THEN Continue(history, <<>>)
    ELSE IF HasPipe(line)
    THEN AfterPipeline(run_pipeline(line, [hist |-> Append(history, line),
                                           idx |-> history_append_index,
                                           files |-> files, cwd |-> cwd,
                                           bad |-> bad], ext), line)
    ELSE
    LET h1 == Append(history, line)
        redirect_match == RedirectSearch(line)
        command_part == IF redirect_match.found
                        THEN Strip(SubSeq(line, 1, redirect_match.start))
                        ELSE line
        output_file == IF redirect_match.found THEN Strip(redirect_match.target) ELSE <<>>
        fd == IF redirect_match.found /\ redirect_match.fd # <<>>
              THEN redirect_match.fd ELSE FdOut
        append == redirect_match.found /\ redirect_match.op = <<">", ">">>
        command_with_args == ShlexSplit(command_part)
        m == [hist |-> h1, idx |-> history_append_index, files |-> files,
              cwd |-> cwd, bad |-> bad]
    IN
    IF ~command_with_args.ok THEN Uncaught("ValueError", h1)
    ELSE IF command_with_args.words = <<>> THEN Continue(h1, <<>>)
    ELSE
    LET command == command_with_args.words[1]
        args == Tail(command_with_args.words)
        rn == [NoRan EXCEPT !.line = line, !.command = command, !.args = args,
                            !.output_file = output_file, !.fd = fd, !.append = append]
    IN
    IF Which(command).some THEN
        LET r == run_executable(m, command, args, output_file, fd, append, ext)
        IN Outcome("prompt", -1, "", r.hist, r.idx, r.files, r.cwd, None, None, r.term,
                   [rn EXCEPT !.how = IF r.executed THEN "external" ELSE "none"])
    ELSE IF command \notin commands THEN
        Outcome("prompt", -1, "", h1, history_append_index, files, cwd, None, None,
                command \o T_not_found, rn)
    ELSE
        LET r == execute_builtin(m, command, args, output_file, fd, append)
        IN AfterBuiltin(r, [rn EXCEPT !.how = IF r.called THEN "builtin" ELSE "none"])

(***************************************************************************)
(* complete_command(text, 0), called by readline on a TAB.                 *)
(***************************************************************************)
\* variant: only the first directory of PATH is listed
FirstEntryCommands(text) ==
    IF PATH = <<>> THEN {} ELSE { cmd \in PATH[1].exes : StartsWith(cmd, text) }

\* the executables of all PATH directories whose name starts with text
PathCommands(text) ==
    { cmd \in UNION { PATH[i].exes : i \in 1..Len(PATH) } : StartsWith(cmd, text) }

\* variant: the builtins are not filtered by text
AllBuiltins(text) == Sorted(commands \cup PathCommands(text))

\* options = sorted(set(builtins + PATH commands starting with text))
Options(text) ==
    Sorted({ cmd \in commands : StartsWith(cmd, text) } \cup PathCommands(text))

SeqToSet(q) == { q[i] : i \in 1..Len(q) }

\* variant: the test of the bell flag is inverted
IsSecondTabInverted(text) == last_tab_text = Some(text) /\ ~last_tab_bell

\* the second TAB is recognised by the remembered text and bell
IsSecondTab(text) == last_tab_text = Some(text) /\ last_tab_bell

\* variant: the single match is returned as it is
BareMatch(option) == option

\* return options[0] + " "
SingleMatch(option) == option \o SP

\* the result: what is written on stdout, what is returned to readline,
\* the two attributes kept on the function and _last_matches
complete_command(text, buffer) ==
    LET options == Options(text)
        lcp == CommonPrefix(SeqToSet(options))
        keep == [written |-> <<>>, ret |-> None, text |-> last_tab_text,
                 bell |-> last_tab_bell, matches |-> options]
    IN IF options = <<>> THEN keep
       ELSE IF Len(options) = 1 THEN [keep EXCEPT !.ret = Some(SingleMatch(options[1]))]
       ELSE IF Len(lcp) > Len(text)
            THEN [keep EXCEPT !.ret = Some(lcp), !.text = None, !.bell = FALSE]
       ELSE IF IsSecondTab(text)
            THEN [keep EXCEPT !.written = <<NL>> \o Join(<<" ", " ">>, options)
                                           \o <<NL>> \o T_prompt \o buffer,
                              !.bell = FALSE]
       ELSE [keep EXCEPT !.written = T_bell, !.text = Some(text), !.bell = TRUE]

(***************************************************************************)
(* The inputs of the model.                                                *)
(***************************************************************************)
F == <<"f">>
H == <<"h">>
W_cat == <<"c", "a", "t">>
W_pw == <<"p", "w">>
W_nope == <<"n", "o", "p", "e">>
W_xz == <<"x", "z">>

L_empty  == << >>
L_blank  == SP
L_hist_a == W_history \o SP \o Opt_a \o SP \o F
L_hist_w == W_history \o SP \o Opt_w \o SP \o F
L_hist_r == W_history \o SP \o Opt_r \o SP \o F
L_pwd    == W_pwd
L_echo   == W_echo \o SP \o <<"a">>
L_quote  == W_echo \o SP \o <<"'", "a">>
L_cd     == W_cd
L_nope   == W_nope
L_exit   == W_exit
L_exit5  == W_exit \o SP \o <<"5">>
L_echo_f == W_echo \o SP \o <<"a", " ", ">", " ">> \o F
L_type_f == W_type \o <<" ", ">", " ">> \o F
L_cd_err == W_cd \o <<" ", "2", ">", " ">> \o F
L_cat    == W_cat \o SP \o F
L_cat_f  == W_cat \o <<" ", ">", " ">> \o F

\* pipelines: a stage that is not found, builtins that would change the
\* shell, empty stages, and one without a builtin
L_p_nope  == <<"e", "c", "h", "o", " ", "a", " ", "|", " ", "n", "o", "p", "e">>
L_p_cd    == <<"c", "d", " ", "/", "t", " ", "|", " ", "c", "a", "t">>
L_p_hr    == <<"h", "i", "s", "t", "o", "r", "y", " ", "-", "r", " ", "h", " ",
               "|", " ", "c", "a", "t">>
L_p_ha    == <<"h", "i", "s", "t", "o", "r", "y", " ", "-", "a", " ", "f", " ",
               "|", " ", "c", "a", "t">>
L_p_exit  == <<"e", "x", "i", "t", " ", "|", " ", "c", "a", "t">>
L_p_or    == <<"e", "c", "h", "o", " ", "a", " ", "|", "|", " ", "p", "w", "d">>
L_p_lead  == <<"|", " ", "p", "w", "d">>
L_p_trail == <<"e", "c", "h", "o", " ", "a", " ", "|">>
L_p_sh    == <<"c", "a", "t", " ", "f", " ", "|", " ", "c", "a", "t">>
L_p_echo  == <<"e", "c", "h", "o", " ", "a", " ", "|", " ", "c", "a", "t">>
\* a builtin that writes more than a pipe holds, before a trailing |
L_p_big   == <<"e", "c", "h", "o", " ", "a", "b", "c", " ", "|">>

\* operators inside quotes, a redirection without a target, and builtins
\* entered by name
L_q_pipe    == <<"e", "c", "h", "o", " ", "\"", "a", "|", "b", "\"">>
L_q_gt      == <<"e", "c", "h", "o", " ", "'", "a", " ", ">", " ", "b", "'">>
L_echo_gt   == <<"e", "c", "h", "o", " ", "h", "i", " ", ">">>
L_type_echo == <<"t", "y", "p", "e", " ", "e", "c", "h", "o">>

\* two redirections on one line, and redirections of descriptor 3
L_two  == <<"e", "c", "h", "o", " ", "x", " ", ">", " ", "f", " ", ">", " ", "h">>
L_cat3 == <<"c", "a", "t", " ", "3", ">", " ", "f">>
L_pwd3 == <<"p", "w", "d", " ", "3", ">", " ", "f">>

\* the lines entered in the runs about the history commands, about
\* history -a alone, about history -w and -r, about completion, about
\* errors, redirection and exit, about pipelines, and about quoting and
\* dispatch
HistLines   == {L_empty, L_blank, L_hist_a, L_hist_w, L_hist_r}
AppendLines == {L_empty, L_blank, L_hist_a, L_pwd, L_nope}
RoundLines  == {L_empty, L_blank, L_hist_w, L_hist_r}
TabLines    == {L_empty, L_echo}
ReplLines   == {L_empty, L_quote, L_cd, L_nope, L_exit, L_exit5, L_echo_f,
                L_type_f, L_cd_err, L_cat, L_cat_f}
PipeLines   == {L_p_nope, L_p_cd, L_p_hr, L_p_ha, L_p_exit, L_p_or, L_p_lead,
                L_p_trail, L_p_sh}
ProcLines   == {L_p_echo, L_p_trail, L_p_big, L_p_or, L_p_nope, L_p_cd}
WordLines   == {L_empty, L_echo, L_q_pipe, L_q_gt, L_echo_gt, L_type_echo,
                L_p_echo, L_pwd, L_two, L_cat3, L_pwd3}

\* the texts a TAB is pressed on
TabTexts == { <<"e">>, <<"e", "c">>, <<"x">>, <<"p">>, W_pw, <<"c">> }

\* the files the system may refuse to open
Paths == {F, H}

\* the values of PATH: no executable at all, or two directories, the second
\* with an executable that has the name of a builtin
PathChoices ==
    { << >>,
      << [dir |-> <<"/", "b">>, exes |-> {W_cat, W_pw}],
         [dir |-> <<"/", "u">>, exes |-> {W_cat, W_echo, W_xz}] >> }

\* the file systems the shell may start in: the history file is missing, or
\* holds one entry and an empty line
FileChoices == { << >>, (H :> <<"p", "w", "d", NL, NL>>) }

HistfileChoices == { None, Some(H) }

\* what an external program writes on its standard output
ExtOutputs == { <<"x", NL>> }

\* no call of run_pipeline is being followed
NoPipeline == [phase |-> "idle", pipeline_parts |-> << >>, i |-> 1,
               processes |-> << >>, waited |-> 0]

\* no TAB was pressed yet
NoTab == [pressed |-> FALSE, flip |-> FALSE, text |-> <<>>, written |-> <<>>,
          ret |-> None, matches |-> <<>>, ding |-> FALSE]

Init ==
    /\ pc = "start"
    /\ exit_code = -1
    /\ exc = ""
    /\ history = << >>
    /\ history_append_index = 0
    /\ history_path = None
    /\ cwd = <<"/">>
    /\ sys_stdout = None
    /\ sys_stderr = None
    /\ last_tab_text = None
    /\ last_tab_bell = FALSE
    /\ tab_out = NoTab
    /\ out = << >>
    /\ ran = NoRan
    /\ files \in FileChoices
    /\ loaded = 0
    /\ HISTFILE \in HistfileChoices
    /\ PATH \in PathChoices
    /\ pl = NoPipeline

(***************************************************************************)
(* The actions.                                                            *)
(***************************************************************************)
\* main() up to the loop: load HISTFILE, set the marker and the cached path
Startup(bad) ==
    /\ pc = "start"
    /\ IF HISTFILE.some /\ HISTFILE.val # <<>>
       THEN LET path == HISTFILE.val
                entries == IF CanRead(files, bad, path) THEN FileEntries(files[path]) ELSE << >>
            IN /\ history' = history \o entries
               /\ history_append_index' = Len(history \o entries)
               /\ history_path' = Some(path)
               /\ out' = IF path \in DOMAIN files /\ path \in bad
                         THEN HistoryError(path) ELSE << >>
       ELSE UNCHANGED << history, history_append_index, history_path, out >>
    /\ loaded' = Len(history')
    /\ pc' = "prompt"
    /\ UNCHANGED << exit_code, exc, cwd, sys_stdout, sys_stderr, last_tab_text,
                    last_tab_bell, tab_out, ran, files, HISTFILE, PATH, pl >>

\* readline, bound to complete_command by set_completer, rings the
\* terminal bell itself when the completer returns None for state 0, and
\* else puts the returned text in place of the word
ReadlineDing(ret) == ~ret.some

\* a TAB while the line buffer holds text
Tab(text) ==
    /\ pc = "prompt"
    /\ \E c \in {complete_command(text, text)} :
          /\ last_tab_text' = c.text
          /\ last_tab_bell' = c.bell
          /\ tab_out' = [pressed |-> TRUE, flip |-> ~tab_out.flip, text |-> text,
                          written |-> c.written, ret |-> c.ret,
                          matches |-> c.matches, ding |-> ReadlineDing(c.ret)]
    /\ UNCHANGED << pc, exit_code, exc, history, history_append_index,
                    history_path, cwd, sys_stdout, sys_stderr, out, ran, files,
                    loaded, HISTFILE, PATH, pl >>

\* input("$ ") returns line and the loop body runs on it
EnterLine(line, bad, ext) ==
    /\ pc = "prompt"
    /\ \E n \in {MainLine(line, bad, ext)} :
          /\ pc' = n.pc
          /\ exit_code' = n.exit_code
          /\ exc' = n.exc
          /\ history' = n.hist
          /\ history_append_index' = n.idx
          /\ files' = n.files
          /\ cwd' = n.cwd
          /\ sys_stdout' = n.stdout
          /\ sys_stderr' = n.stderr
          /\ out' = n.out
          /\ ran' = [n.ran EXCEPT !.line = line]
    /\ UNCHANGED << history_path, last_tab_text, last_tab_bell, tab_out, loaded,
                    HISTFILE, PATH, pl >>

\* input("$ ") meets the end of the input: EOFError, which nothing catches
Eof ==
    /\ pc = "prompt"
    /\ pc' = "crashed"
    /\ exit_code' = 1
    /\ exc' = "EOFError"
    /\ out' = << >>
    /\ ran' = NoRan
    /\ UNCHANGED << history, history_append_index, history_path, cwd, sys_stdout,
                    sys_stderr, last_tab_text, last_tab_bell, tab_out, files,
                    loaded, HISTFILE, PATH, pl >>

(***************************************************************************)
(* run_pipeline followed process by process.  The stages run while the     *)
(* shell launches the next ones and waits; a pipe holds at most PipeCap    *)
(* characters, a write on a full pipe blocks, a read on an empty pipe      *)
(* returns the end of file once no write end is open, and a write on a     *)
(* pipe with no read end open fails.  pl.processes[k] is the k-th entry of *)
(* processes with the pipe made for its standard output:                   *)
(*   alive: the process has not ended, text: what it has yet to write,     *)
(*   piped: its standard output is a pipe, buf: what that pipe holds,      *)
(*   read_file: the shell holds the read end (processes[k].stdout) open,   *)
(*   write_fd: the shell holds the write end open,                         *)
(*   stdin: the entry whose pipe is its standard input, 0 for none.        *)
(* A process holds the write end of its pipe and the read end of the pipe  *)
(* of its standard input until it ends.                                    *)
(***************************************************************************)
\* variant: the shell does not close write_fd after the fork
ParentKeepsWriteEnd == [read_file |-> TRUE, write_fd |-> TRUE]

\* the ends of a builtin's pipe the shell holds after the fork:
\* os.close(write_fd), read_file = os.fdopen(read_fd, "r")
ParentAfterFork == [read_file |-> TRUE, write_fd |-> FALSE]

\* the ends of the pipe of stdout=subprocess.PIPE the shell holds after
\* Popen: proc.stdout
ParentAfterPopen == [read_file |-> TRUE, write_fd |-> FALSE]

\* what the child of a builtin writes on its standard output: sys.stdout is
\* os.fdopen(1, "w"), whose buffer os._exit inside the builtin drops when
\* descriptor 1 is a pipe
ChildOutput(r, piped) == IF r.outcome = "exit" /\ piped THEN << >> ELSE r.text

\* an entry of processes
Proc(i, kind, cmd_args, status, text, piped, ends, stdin) ==
    Stage(i, kind, cmd_args, status)
    @@ [alive |-> TRUE, text |-> text, piped |-> piped, buf |-> << >>,
        read_file |-> piped /\ ends.read_file, write_fd |-> piped /\ ends.write_fd,
        stdin |-> stdin]

\* stdin_pipe.close() in the shell: stdin_pipe is processes[-1].stdout
StdinPipeClosed(processes) ==
    IF processes = << >> THEN processes
    ELSE [processes EXCEPT ![Len(processes)].read_file = FALSE]

\* the local processes is released when run_pipeline returns, and with it
\* the file objects read_file and proc.stdout that nothing else refers to:
\* the interpreter closes their descriptors.  write_fd is a bare descriptor,
\* which nothing closes
ProcessesReleased(processes) ==
    [k \in DOMAIN processes |-> [processes[k] EXCEPT !.read_file = FALSE]]

\* the line is entered, added to the history and handed to run_pipeline,
\* whose first loop finds a builtin
PipeBegin(line) ==
    /\ pc = "prompt"
    /\ HasPipe(line)
    /\ HasBuiltin(SplitPipe(line), 1) = "yes"
    /\ pc' = "pipeline"
    /\ history' = Append(history, line)
    /\ out' = << >>
    /\ ran' = [NoRan EXCEPT !.line = line, !.how = "pipeline"]
    /\ pl' = [NoPipeline EXCEPT !.phase = "launch", !.pipeline_parts = SplitPipe(line)]
    /\ UNCHANGED << exit_code, exc, history_append_index, history_path, cwd,
                    sys_stdout, sys_stderr, last_tab_text, last_tab_bell, tab_out,
                    files, loaded, HISTFILE, PATH >>

\* an exception leaves run_pipeline and main(): the shell ends, the
\* processes it launched go on
PipeCrash(error) ==
    /\ pc' = "crashed"
    /\ exit_code' = 1
    /\ exc' = error
    /\ pl' = [pl EXCEPT !.phase = "ended"]
    /\ UNCHANGED files

\* one iteration of the second loop of run_pipeline, on part pl.i
LaunchStage(bad, ext) ==
    /\ pc = "pipeline"
    /\ pl.phase = "launch"
    /\ LET i == pl.i
           cmd_args == ShlexSplit(Strip(pl.pipeline_parts[i]))
           last == (i = Len(pl.pipeline_parts))
           phase == IF last THEN "wait" ELSE "launch"
           stdin == IF i > 1 THEN Len(pl.processes) ELSE 0
           m == [hist |-> history, idx |-> history_append_index, files |-> files,
                 cwd |-> cwd, bad |-> bad]
       IN
       IF ~cmd_args.ok THEN PipeCrash("ValueError")
       ELSE IF cmd_args.words = << >>
       THEN /\ pl' = [pl EXCEPT !.i = i + 1, !.phase = phase]
            /\ UNCHANGED << pc, exit_code, exc, files >>
       ELSE IF i > 1 /\ pl.processes = << >>
       THEN \* processes[-1] of an empty list
            PipeCrash("IndexError")
       ELSE
       LET cmd_name == cmd_args.words[1]
           closed == IF i > 1 THEN StdinPipeClosed(pl.processes) ELSE pl.processes
       IN
       IF cmd_name \in commands THEN
           LET r == CallBuiltin(m, cmd_name, Tail(cmd_args.words))
               proc == Proc(i, "builtin", cmd_args.words, ChildStatus(r),
                            ChildOutput(r, ~last), ~last, ParentAfterFork, stdin)
           IN /\ pl' = [pl EXCEPT !.i = i + 1, !.phase = phase,
                                  !.processes = Append(closed, proc)]
              /\ files' = AfterFork(m, r).files
              /\ UNCHANGED << pc, exit_code, exc >>
       ELSE IF Which(cmd_name).some THEN
           LET proc == Proc(i, "external", cmd_args.words, 0, ext, ~last,
                            ParentAfterPopen, stdin)
           IN /\ pl' = [pl EXCEPT !.i = i + 1, !.phase = phase,
                                  !.processes = Append(closed, proc)]
              /\ UNCHANGED << pc, exit_code, exc, files >>
       ELSE \* subprocess.Popen raises in the shell
            PipeCrash("FileNotFoundError")
    /\ UNCHANGED << history, history_append_index, history_path, cwd, sys_stdout,
                    sys_stderr, last_tab_text, last_tab_bell, tab_out, out, ran,
                    loaded, HISTFILE, PATH >>

\* proc.wait() returns for the next entry of processes
WaitStage ==
    /\ pc = "pipeline"
    /\ pl.phase = "wait"
    /\ pl.waited < Len(pl.processes)
    /\ ~pl.processes[pl.waited + 1].alive
    /\ pl' = [pl EXCEPT !.waited = @ + 1]
    /\ UNCHANGED << pc, exit_code, exc, history, history_append_index,
                    history_path, cwd, sys_stdout, sys_stderr, last_tab_text,
                    last_tab_bell, tab_out, out, ran, files, loaded, HISTFILE, PATH >>

\* the loop of the waits is over: run_pipeline returns to main(), which
\* goes back to input("$ ")
PipeReturn ==
    /\ pc = "pipeline"
    /\ pl.phase = "wait"
    /\ pl.waited = Len(pl.processes)
    /\ pc' = "prompt"
    /\ pl' = [pl EXCEPT !.phase = "idle", !.processes = ProcessesReleased(@)]
    /\ ran' = [ran EXCEPT !.waited = pl.waited,
                          !.stages = [k \in DOMAIN pl.processes |->
                                         [seg |-> pl.processes[k].seg,
                                          kind |-> pl.processes[k].kind,
                                          command |-> pl.processes[k].command,
                                          args |-> pl.processes[k].args,
                                          status |-> pl.processes[k].status]]]
    /\ UNCHANGED << exit_code, exc, history, history_append_index, history_path,
                    cwd, sys_stdout, sys_stderr, last_tab_text, last_tab_bell,
                    tab_out, out, files, loaded, HISTFILE, PATH >>

\* a read end of the pipe of process k is open: in the shell, or in the
\* process that has it as its standard input
ReadEndOpen(k) ==
    \/ pl.processes[k].read_file
    \/ \E c \in 1..Len(pl.processes) :
          pl.processes[c].stdin = k /\ pl.processes[c].alive

\* a write end of the pipe of process k is open: in the process, or in the
\* shell
WriteEndOpen(k) == pl.processes[k].alive \/ pl.processes[k].write_fd

\* what every step of a launched process leaves alone
StageFrame ==
    UNCHANGED << pc, exit_code, exc, history, history_append_index, history_path,
                 cwd, sys_stdout, sys_stderr, last_tab_text, last_tab_bell,
                 tab_out, ran, files, loaded, HISTFILE, PATH >>

\* process k writes one more character of its output: on the terminal, or
\* into its pipe when the pipe has room
StageWrite(k) ==
    /\ k <= Len(pl.processes)
    /\ pl.processes[k].alive
    /\ pl.processes[k].text # << >>
    /\ IF pl.processes[k].piped
       THEN /\ ReadEndOpen(k)
            /\ Len(pl.processes[k].buf) < PipeCap
            /\ pl' = [pl EXCEPT !.processes[k].text = Tail(@),
                                !.processes[k].buf = Append(@, Head(pl.processes[k].text))]
            /\ out' = out
       ELSE /\ pl' = [pl EXCEPT !.processes[k].text = Tail(@)]
            /\ out' = Append(out, Head(pl.processes[k].text))
    /\ StageFrame

\* process k writes into a pipe no process can read: the child of a builtin
\* ends on BrokenPipeError, a program on SIGPIPE
StageBrokenPipe(k) ==
    /\ k <= Len(pl.processes)
    /\ pl.processes[k].alive
    /\ pl.processes[k].text # << >>
    /\ pl.processes[k].piped
    /\ ~ReadEndOpen(k)
    /\ pl' = [pl EXCEPT !.processes[k].alive = FALSE,
                        !.processes[k].status =
                            IF pl.processes[k].kind = "builtin" THEN 1 ELSE -13]
    /\ out' = out
    /\ StageFrame

\* the program of process k reads a character of its standard input; a
\* builtin reads nothing
StageRead(k) ==
    /\ k <= Len(pl.processes)
    /\ pl.processes[k].alive
    /\ pl.processes[k].kind = "external"
    /\ pl.processes[k].stdin > 0
    /\ pl.processes[pl.processes[k].stdin].buf # << >>
    /\ pl' = [pl EXCEPT !.processes[pl.processes[k].stdin].buf = Tail(@)]
    /\ out' = out
    /\ StageFrame

\* process k ends: it has written its output and, a program, has met the
\* end of its standard input
StageExit(k) ==
    /\ k <= Len(pl.processes)
    /\ pl.processes[k].alive
    /\ pl.processes[k].text = << >>
    /\ IF pl.processes[k].kind = "builtin" \/ pl.processes[k].stdin = 0
       THEN TRUE
       ELSE /\ pl.processes[pl.processes[k].stdin].buf = << >>
            /\ ~WriteEndOpen(pl.processes[k].stdin)
    /\ pl' = [pl EXCEPT !.processes[k].alive = FALSE]
    /\ out' = out
    /\ StageFrame

\* a step of process k
StageStep(k) == StageWrite(k) \/ StageBrokenPipe(k) \/ StageRead(k) \/ StageExit(k)

(***************************************************************************)
(* The specifications: the shell with the lines of each group of runs.     *)
(***************************************************************************)
\* a line of L is entered; cap bounds the history the run may build
Lines(L, cap) ==
    \E line \in L, bad \in SUBSET Paths, ext \in ExtOutputs :
        /\ EnterLine(line, bad, ext)
        /\ Len(history') <= cap

Start == \E bad \in SUBSET Paths : Startup(bad)

Tabs == \E text \in TabTexts : Tab(text)

Next == Start \/ Lines(ReplLines, MaxHist) \/ Eof

NextHist == Start \/ Lines(HistLines, MaxHist) \/ Eof

NextAppend == Start \/ Lines(AppendLines, MaxHist) \/ Eof

NextRound == Start \/ Lines(RoundLines, MaxRound) \/ Eof

NextTab == Start \/ Tabs \/ Lines(TabLines, MaxHist) \/ Eof

NextPipe == Start \/ Lines(PipeLines, MaxPipe) \/ Eof

NextWord == Start \/ Lines(WordLines, MaxHist) \/ Eof

\* a pipeline with a builtin is entered
Pipelines ==
    \E line \in ProcLines : PipeBegin(line) /\ Len(history') <= MaxRuns

\* a step of the shell inside run_pipeline
ShellStep ==
    \/ \E bad \in SUBSET Paths, ext \in ExtOutputs : LaunchStage(bad, ext)
    \/ WaitStage
    \/ PipeReturn

Stages == \E k \in 1..MaxStages : StageStep(k)

NextProc == Start \/ Pipelines \/ ShellStep \/ Stages \/ Eof

Spec == Init /\ [][Next]_vars

SpecHist == Init /\ [][NextHist]_vars

SpecAppend == Init /\ [][NextAppend]_vars

SpecRound == Init /\ [][NextRound]_vars

SpecTab == Init /\ [][NextTab]_vars

SpecPipe == Init /\ [][NextPipe]_vars

SpecWord == Init /\ [][NextWord]_vars

SpecProc == Init /\ [][NextProc]_vars

\* the shell and every process it launched are scheduled: a step that
\* stays possible is taken
SpecProcFair ==
    /\ SpecProc
    /\ WF_vars(ShellStep)
    /\ \A k \in 1..MaxStages : WF_vars(StageStep(k))

(***************************************************************************)
(* Properties.                                                             *)
(***************************************************************************)
\* the content of path, empty when the file does not exist
FileOf(fs, path) == IF path \in DOMAIN fs THEN fs[path] ELSE << >>

\* every name that can complete text: builtins and executables of PATH
Candidates(text) ==
    { c \in commands \cup UNION { PATH[i].exes : i \in 1..Len(PATH) } : StartsWith(c, text) }

\* several candidates, and no character beyond text is common to them all
Ambiguous(text) ==
    LET C == Candidates(text)
        n == Len(text)
    IN /\ Cardinality(C) > 1
       /\ ~ ( /\ \A c \in C : Len(c) > n
              /\ \A c, d \in C : c[n + 1] = d[n + 1] )

IsSortedList(q) == \A i, j \in 1..Len(q) : i < j => StrLess(q[i], q[j])

\* q is the list of the candidates of text, sorted
IsCandidateList(q, text) == IsSortedList(q) /\ SeqToSet(q) = Candidates(text)

BellRang(t) == t.pressed /\ t.written = T_bell
ListPrinted(t) == t.pressed /\ t.written # << >> /\ t.written # T_bell

\* the TAB pressed now is a first TAB: none was pressed before, or the one
\* before printed the list for the same text, or rang the bell for another
FirstTab(text) ==
    \/ ~tab_out.pressed
    \/ ListPrinted(tab_out) /\ tab_out.text = text
    \/ BellRang(tab_out) /\ tab_out.text # text

\* C1: for a text with several candidates and no longer common prefix, a
\* TAB returns no completion; a first TAB rings the bell and prints no
\* list; the TAB that follows a TAB for the same text that rang the bell
\* prints a newline, the sorted candidates joined by two spaces, a newline,
\* the prompt and the unchanged line buffer.
C1_BellThenList ==
    [][ \A text \in TabTexts :
          (Tab(text) /\ Ambiguous(text)) =>
             /\ tab_out'.ret = None
             /\ (FirstTab(text) => tab_out'.written = T_bell)
             /\ (BellRang(tab_out) /\ tab_out.text = text) =>
                   \E q \in {Options(text)} :
                      /\ IsCandidateList(q, text)
                      /\ tab_out'.written =
                            <<NL>> \o Join(<<" ", " ">>, q) \o <<NL>> \o T_prompt \o text
      ]_vars

\* the second TAB on "e" has printed "echo  exit" and redrawn "$ e"
C1_Witness ==
    /\ tab_out.pressed
    /\ tab_out.text = <<"e">>
    /\ tab_out.ret = None
    /\ tab_out.written = <<NL>> \o W_echo \o <<" ", " ">> \o W_exit \o <<NL, "$", " ", "e">>

\* C2: the candidate list is printed on a TAB for a text only if the TAB
\* pressed just before was for the same text and rang the bell.
C2_ListOnlyAfterBellForSameText ==
    [][ \A text \in TabTexts :
          (Tab(text) /\ ListPrinted(tab_out')) =>
             (BellRang(tab_out) /\ tab_out.text = text)
      ]_vars

\* the last entered line was a history -a f the builtin ran without error,
\* and the step enters history -a f again, which again runs without error
SecondAppend ==
    /\ pc = "prompt" /\ ran.line = L_hist_a /\ ran.how = "builtin" /\ out = << >>
    /\ history' = Append(history, L_hist_a)
    /\ ran'.line = L_hist_a /\ ran'.how = "builtin" /\ out' = << >>

\* C3 as stated: the second of two consecutive history -a f commands
\* appends zero entries to f.
C3_SecondAppendAddsNothing ==
    [][ SecondAppend => FileOf(files', F) = FileOf(files, F) ]_vars

\* C3 amended: the second of two consecutive successful history -a f
\* commands appends exactly one entry to f, its own command line.
C3_SecondAppendAddsItsOwnLine ==
    [][ SecondAppend => FileOf(files', F) = FileOf(files, F) \o L_hist_a \o <<NL>> ]_vars

\* two history -a f in a row were entered and f holds both lines
C3_Witness ==
    /\ Len(history) >= 2
    /\ history[Len(history)] = L_hist_a
    /\ history[Len(history) - 1] = L_hist_a
    /\ ran.line = L_hist_a /\ ran.how = "builtin" /\ out = << >>
    /\ history_append_index = Len(history)
    /\ FileOf(files, F) = L_hist_a \o <<NL>> \o L_hist_a \o <<NL>>

\* a successful history -a f step: the builtin ran and printed no error
AppendStep ==
    /\ pc = "prompt"
    /\ history' = Append(history, L_hist_a)
    /\ ran'.line = L_hist_a /\ ran'.how = "builtin" /\ out' = << >>

\* C4: each successful history -a f writes exactly the entries above the
\* marker, in order, and moves the marker to the length of the history; so,
\* with only entered lines and history -a f, f holds the entries entered up
\* to the marker once each and in order, and none of the entries loaded from
\* HISTFILE.
C4_AppendWritesEachEntryOnce ==
    /\ [][ AppendStep =>
             /\ FileOf(files', F) = FileOf(files, F)
                   \o Join(<<NL>>, SubSeq(history', history_append_index + 1, Len(history')))
                   \o <<NL>>
             /\ history_append_index' = Len(history') ]_vars
    /\ [] ( pc # "start" =>
              /\ loaded <= history_append_index
              /\ FileOf(files, F) =
                    IF history_append_index = loaded THEN << >>
                    ELSE Join(<<NL>>, SubSeq(history, loaded + 1, history_append_index))
                         \o <<NL>> )

\* one entry was loaded at startup, history -a f ran twice with a line in
\* between, and f holds the three entered lines
C4_Witness ==
    /\ loaded = 1
    /\ history = <<W_pwd, L_hist_a, W_nope, L_hist_a>>
    /\ history_append_index = 4
    /\ FileOf(files, F) = L_hist_a \o <<NL>> \o W_nope \o <<NL>> \o L_hist_a \o <<NL>>

\* C5: the history never gets shorter and the marker stays between 0 and
\* the length of the history.
C5_HistoryGrowsMarkerInRange ==
    /\ [][ Len(history') >= Len(history) ]_vars
    /\ [] ( 0 <= history_append_index /\ history_append_index <= Len(history) )

\* history -r f has added entries above a marker that history -a f set
C5_Witness ==
    /\ history_append_index >= 2
    /\ Len(history) > history_append_index + 1
    /\ ran.line = L_hist_r /\ out = << >>

\* the last entered line was a successful history -w f, and the step enters
\* history -r f, which reads the file without error
WriteThenRead ==
    /\ pc = "prompt" /\ ran.line = L_hist_w /\ ran.how = "builtin" /\ out = << >>
    /\ Len(history') > Len(history)
    /\ ran'.line = L_hist_r /\ ran'.how = "builtin" /\ out' = << >>

\* C6: history -w f leaves in f one line per entry of the history, and a
\* history -r f that follows appends exactly the non-empty entries the
\* history had at the write, in the same order.
C6_WriteThenReadRoundTrip ==
    [][ WriteThenRead =>
          /\ FileOf(files, F) = Join(<<NL>>, history) \o <<NL>>
          /\ history' = history \o <<L_hist_r>> \o SelectSeq(history, LAMBDA e : e # << >>)
      ]_vars

\* a history with a whitespace-only entry was written and read back
C6_Witness ==
    /\ history = <<L_blank, L_hist_w, L_hist_r, L_blank, L_hist_w>>
    /\ ran.line = L_hist_r /\ out = << >>

\* the process has ended
Ended == pc \in {"exited", "crashed"}

\* the history file the shell persists to on exit, if one is configured
Persisted ==
    history_path.some => FileOf(files, history_path.val) = Join(<<NL>>, history) \o <<NL>>

\* C7: a line with an unterminated quote, a builtin called with the wrong
\* number of arguments, a redirection target that cannot be opened or a
\* command that is not found makes the shell emit a message, execute nothing
\* and return to the prompt; the process ends only through exit or the end
\* of the input.
C7_ErrorsReturnToPrompt ==
    /\ Ended => (exc = "EOFError" \/ ran.command = W_exit)
    /\ ran.line \in {L_quote, L_cd, L_nope} =>
          (pc = "prompt" /\ out # << >> /\ ran.how = "none")

\* C8: at the end of the input the shell writes the history to the
\* configured history file, as exit does, and ends with exit code 0.
C8_EofPersistsAndExitsZero ==
    exc = "EOFError" => (pc = "exited" /\ exit_code = 0 /\ Persisted)

\* C9: exit N persists the history to the configured history file and ends
\* the process with exit code N; exit alone does the same with code 0.
C9_ExitCodeIsArgument ==
    /\ (ran.line = L_exit /\ ran.how = "builtin") =>
          (pc = "exited" /\ exit_code = 0 /\ Persisted)
    /\ (ran.line = L_exit5 /\ ran.how = "builtin") =>
          (pc = "exited" /\ exit_code = 5 /\ Persisted)

\* C10: after execute_builtin ran a builtin with an output redirection,
\* sys.stdout and sys.stderr are the streams they were before, whether the
\* builtin returned or raised.
C10_StreamsRestored ==
    (ran.how = "builtin" /\ ran.output_file # << >> /\ pc # "exited") =>
        (sys_stdout = None /\ sys_stderr = None)

\* the words of the parts of a pipeline line, as run_pipeline reads them
PartWords(line) ==
    [ i \in 1..Len(SplitPipe(line)) |-> ShlexSplit(Strip(SplitPipe(line)[i])) ]

\* every part of the line is a stage: it splits into at least one word
AllStages(line) ==
    \A i \in DOMAIN PartWords(line) : PartWords(line)[i].ok /\ PartWords(line)[i].words # << >>

\* the command of the stage is a builtin or an executable of PATH
Launchable(w) == w.words[1] \in commands \/ Which(w.words[1]).some

\* the parts of the stages run_pipeline launched
LaunchedSegs(r) == { r.stages[k].seg : k \in 1..Len(r.stages) }

\* C11: when a stage of a pipeline that run_pipeline launches itself cannot
\* be launched, the shell reports it, launches the other stages all the
\* same, waits for every stage it launched and returns to the prompt.
C11_FailedStageLeavesOthersRunning ==
    ( /\ HasPipe(ran.line) /\ AllStages(ran.line) /\ ran.how # "shell"
      /\ \E i \in DOMAIN PartWords(ran.line) : ~Launchable(PartWords(ran.line)[i]) )
    => /\ pc = "prompt"
       /\ LaunchedSegs(ran) =
             { i \in DOMAIN PartWords(ran.line) : Launchable(PartWords(ran.line)[i]) }
       /\ ran.waited = Len(ran.stages)

\* the step enters a pipeline line: the history gets it as its last entry
PipelineStep ==
    /\ pc = "prompt"
    /\ HasPipe(ran'.line)
    /\ Len(history') = Len(history) + 1
    /\ history'[Len(history')] = ran'.line

\* C12: a pipeline never ends the shell through an exit stage, and when
\* run_pipeline returns, the working directory and the append marker are
\* what they were and the history has grown by the entered line alone.
C12_PipelineBuiltinsLeaveShellUnchanged ==
    [][ PipelineStep =>
          /\ pc' # "exited"
          /\ pc' = "prompt" =>
                /\ cwd' = cwd
                /\ history' = Append(history, ran'.line)
                /\ history_append_index' = history_append_index
                /\ \A k \in 1..Len(ran'.stages) :
                      ran'.stages[k].command \in commands => ran'.stages[k].kind = "builtin"
      ]_vars

\* cd /t | cat has returned: cd ran as a stage and the shell is where it was
C12_Witness ==
    /\ pc = "prompt"
    /\ ran.line = L_p_cd
    /\ Len(ran.stages) = 2
    /\ ran.stages[1].command = W_cd /\ ran.stages[1].kind = "builtin"
    /\ ran.waited = 2
    /\ cwd = <<"/">>

\* a part of the pipeline line is empty or blank
HasEmptyStage(line) ==
    HasPipe(line) /\ \E i \in 1..Len(SplitPipe(line)) : Strip(SplitPipe(line)[i]) = << >>

\* C13: a pipeline line with an empty stage is rejected: run_pipeline
\* launches none of its stages and the shell returns to the prompt.
C13_EmptyStageRejected ==
    HasEmptyStage(ran.line) => (pc = "prompt" /\ ran.stages = << >>)

\* C14: a line whose only pipe or redirection characters are inside quotes
\* is executed as one command without redirection, the characters being
\* part of its argument.
C14_QuotedOperatorsAreWords ==
    /\ ran.line = L_q_pipe =>
          /\ pc = "prompt" /\ ran.how \in {"builtin", "external"}
          /\ ran.command = W_echo /\ ran.args = << <<"a", "|", "b">> >>
          /\ ran.output_file = << >> /\ ran.stages = << >>
    /\ ran.line = L_q_gt =>
          /\ pc = "prompt" /\ ran.how \in {"builtin", "external"}
          /\ ran.command = W_echo /\ ran.args = << <<"a", " ", ">", " ", "b">> >>
          /\ ran.output_file = << >> /\ ran.stages = << >>

\* C15: a command that has the name of a builtin runs the builtin when
\* entered alone and as a pipeline stage, and type says of that name that
\* it is a shell builtin, whatever PATH holds.
C15_BuiltinDispatchAgrees ==
    /\ (ran.how \in {"builtin", "external"} /\ ran.command \in commands) => ran.how = "builtin"
    /\ \A k \in 1..Len(ran.stages) :
          ran.stages[k].command \in commands => ran.stages[k].kind = "builtin"
    /\ ( /\ ran.how = "builtin" /\ ran.command = W_type /\ ran.output_file = << >>
         /\ Len(ran.args) = 1 /\ ran.args[1] \in commands )
       => out = ran.args[1] \o T_is_builtin

\* the bells a TAB made the terminal ring: those complete_command wrote and
\* the one of readline
Bells(t) ==
    Cardinality({ i \in 1..Len(t.written) : t.written[i] = "BEL" })
    + (IF t.ding THEN 1 ELSE 0)

C17_SingleCandidateCompleted ==
    [][ \A text \in TabTexts :
          (Tab(text) /\ Cardinality(Candidates(text)) = 1) =>
             /\ \A c \in Candidates(text) : tab_out'.ret = Some(c \o <<" ">>)
             /\ Bells(tab_out') = 0
             /\ tab_out'.written = << >>
      ]_vars

\* a TAB on ec returned echo and a space
C17_Witness ==
    /\ tab_out.pressed /\ tab_out.text = <<"e", "c">>
    /\ tab_out.ret = Some(<<"e", "c", "h", "o", " ">>)
    /\ Bells(tab_out) = 0

\* l is the longest common prefix of the names of C
IsLcp(l, C) ==
    /\ \A c \in C : StartsWith(c, l)
    /\ ~ \E i \in 1..Len(Chars) : \A c \in C : StartsWith(c, Append(l, Chars[i]))

\* C18: when several candidates start with the text and share a longer
\* prefix, a TAB returns exactly their longest common prefix, which starts
\* with the text and is a prefix of every candidate, rings no bell, prints
\* nothing and forgets the remembered TAB.
C18_CommonPrefixCompleted ==
    [][ \A text \in TabTexts :
          (Tab(text) /\ Cardinality(Candidates(text)) > 1 /\ ~Ambiguous(text)) =>
             /\ tab_out'.ret.some
             /\ IsLcp(tab_out'.ret.val, Candidates(text))
             /\ StartsWith(tab_out'.ret.val, text)
             /\ Len(tab_out'.ret.val) > Len(text)
             /\ Bells(tab_out') = 0
             /\ tab_out'.written = << >>
             /\ last_tab_text' = None
             /\ last_tab_bell' = FALSE
      ]_vars

\* a TAB on p, with pw and pwd to choose from, returned pw
C18_Witness ==
    /\ tab_out.pressed /\ tab_out.text = <<"p">>
    /\ tab_out.matches = <<W_pw, W_pwd>>
    /\ tab_out.ret = Some(W_pw)
    /\ last_tab_text = None /\ ~last_tab_bell

\* the builtins and the executables of the first PATH directory that start
\* with text
FirstEntryCandidates(text) ==
    { c \in commands \cup (IF PATH = << >> THEN {} ELSE PATH[1].exes) : StartsWith(c, text) }

\* C19 as stated: the options of a TAB are the builtins and the executables
\* of the first PATH directory that start with the text, each once, sorted.
C19_OptionsFromFirstPathEntry ==
    tab_out.pressed =>
        /\ IsSortedList(tab_out.matches)
        /\ SeqToSet(tab_out.matches) = FirstEntryCandidates(tab_out.text)

\* C19 amended: the options of a TAB are the builtins and the executables
\* of all PATH directories that start with the text, each once, sorted.
C19_OptionsFromEveryPathEntry ==
    tab_out.pressed => IsCandidateList(tab_out.matches, tab_out.text)

\* a TAB on c found cat, which two directories hold, once, and cd; or a TAB
\* on x found xz, which only the second directory holds
C19_Witness ==
    /\ tab_out.pressed
    /\ Len(PATH) = 2 /\ W_xz \notin PATH[1].exes /\ W_cat \in PATH[1].exes \cap PATH[2].exes
    /\ \/ tab_out.text = <<"x">> /\ tab_out.matches = <<W_xz>>
       \/ tab_out.text = <<"c">> /\ tab_out.matches = <<W_cat, W_cd>>

\* the line has a redirection operator and nothing after it
EmptyTarget(line) ==
    ~HasPipe(line) /\ RedirectSearch(line).found /\ Strip(RedirectSearch(line).target) = << >>

\* C20: a line with a redirection operator and no target is rejected: the
\* command is not executed.
C20_EmptyTargetRejected ==
    EmptyTarget(ran.line) => (pc = "prompt" /\ ran.how = "none")

\* C21: with two redirections of the same descriptor on a line, as in
\* echo x > f > h, both targets are opened and the output of the command is
\* in the last one.
C21_EveryTargetOpenedLastWins ==
    (ran.line = L_two /\ pc = "prompt") =>
        /\ ran.how \in {"builtin", "external"}
        /\ F \in DOMAIN files /\ H \in DOMAIN files
        /\ files[F] = << >>
        /\ files[H] \in { <<"x", NL>> } \cup ExtOutputs

\* the step is the loop body of main() on an entered line, which ran' names
LineStep == pc = "prompt" /\ exc' # "EOFError"

\* the history has grown and its first new entry is line
Recorded(line) ==
    /\ Len(history') > Len(history)
    /\ SubSeq(history', 1, Len(history) + 1) = Append(history, line)

\* C22 as stated: an empty line and a line of whitespace alone are skipped:
\* the history stays as it is and nothing is executed; every other line is
\* added to the history once, before it is executed.
C22_BlankLinesSkipped ==
    [][ LineStep =>
          IF Strip(ran'.line) = << >>
          THEN history' = history /\ ran'.how = "none"
          ELSE Recorded(ran'.line)
      ]_vars

\* C22 amended: an empty line is skipped: the history stays as it is and
\* nothing is executed; every other line, one of whitespace alone included,
\* is added to the history once, before it is executed: a line of
\* whitespace then executes nothing, history -w f writes a file that ends
\* with the line itself, and only history -r f adds further entries.
C22_EmptyLineSkippedOthersRecorded ==
    [][ LineStep =>
          IF ran'.line = << >>
          THEN history' = history /\ ran'.how = "none"
          ELSE /\ Recorded(ran'.line)
               /\ ran'.line # L_hist_r => history' = Append(history, ran'.line)
               /\ Strip(ran'.line) = << >> => ran'.how = "none"
               /\ (ran'.line = L_hist_w /\ out' = << >>) =>
                     FileOf(files', F) = Join(<<NL>>, Append(history, ran'.line)) \o <<NL>>
      ]_vars

\* a line of one space was entered and is the last entry of the history,
\* and nothing was executed
C22_Witness ==
    /\ pc = "prompt"
    /\ Len(history) >= 2
    /\ history[Len(history)] = L_blank
    /\ ran.line = L_blank /\ ran.how = "none"

\* the last line is a redirection of one descriptor, or of none named, to
\* a file that could be opened, of a command that is a builtin or on PATH
ResolvedRedirection ==
    /\ ~HasPipe(ran.line)
    /\ RedirectSearch(ran.line).found
    /\ Len(RedirectSearch(ran.line).fd) <= 1
    /\ ran.output_file # << >>
    /\ ran.command \in commands \/ Which(ran.command).some
    /\ exc # "OSError"
    /\ out # RunError(ran.command)

\* C25: such a command is executed, and when the descriptor is neither 1
\* nor 2 neither sys.stdout nor sys.stderr is bound to the file.
C25_RedirectedCommandRunsOnce ==
    ResolvedRedirection =>
        /\ ran.how \in {"builtin", "external"}
        /\ ran.fd \notin {FdOut, FdErr} => (sys_stdout = None /\ sys_stderr = None)


\* the pipes of the followed pipeline of which the shell holds an end
HeldByShell ==
    { k \in 1..Len(pl.processes) :
         pl.processes[k].piped /\ (pl.processes[k].read_file \/ pl.processes[k].write_fd) }

C24_PipelineReturnsToPrompt ==
    (pc = "pipeline") ~> (pc \in {"prompt", "crashed"})

=============================================================================
